---- MODULE Spec2Model ----
(***************************************************************************)
(* Model of the address extractor stream (stream/address_extractor.js) and *)
(* of the document constructor stream it follows in the import pipeline.   *)
(*                                                                         *)
(* JavaScript strings are sequences of tokens.  A token is a single        *)
(* character ("1", ";", " ", "-", ":") or a whole word (osm, node, poi,    *)
(* address, St, Cafe, X, ...).  No word is a prefix of another word and no *)
(* word contains a single-character token, so two token sequences are      *)
(* equal exactly when the strings they spell are equal.                    *)
(* The JavaScript value undefined is the one-token sequence Absent, which  *)
(* is how string concatenation renders it; where an object is expected it  *)
(* is the record Undefined.                                                *)
(***************************************************************************)
EXTENDS Integers, Sequences, FiniteSets

VARIABLES
  idOrdinal,   \* module-level counter of address_extractor.js
  doc,         \* the document handed to the last call of the transform
  pushed,      \* what that call pushed downstream, in order
  logged,      \* the house numbers whose construction error that call logged
  sink,        \* per stream instance: every document pushed so far
  written,     \* number of documents written to the streams that feed sink
  raw,         \* the record handed to the last document constructor call
  emitted,     \* what that call pushed downstream
  streamError  \* TRUE once a document constructor call raised

vars ==
  <<idOrdinal, doc, pushed, logged, sink, written, raw, emitted, streamError>>

\* ------------------------------------------------------------------ bounds
MaxOrdinal == 2     \* no document is written once the counter reached this
MaxWrites == 2      \* documents written in a run that records the sinks
MaxFail == 2        \* house numbers of one document whose construction throws
MaxBadFields == 2   \* fields of one document whose value is rejected

\* ----------------------------------------------------------- JS primitives
Absent == <<"undefined">>
Undefined == [undefined |-> TRUE]

isObject(x) == x # Undefined

isString(x) == x # Absent

\* JavaScript truthiness of a string-or-undefined value
truthy(x) == x # Absent /\ x # <<>>

\* Number.prototype.toString, base 10
RECURSIVE toString(_)
toString(n) ==
  LET digit == <<"0", "1", "2", "3", "4", "5", "6", "7", "8", "9">>
  IN IF n < 10 THEN <<digit[n + 1]>>
     ELSE toString(n \div 10) \o <<digit[(n % 10) + 1]>>

\* Array.prototype.join
RECURSIVE join(_, _)
join(parts, sep) ==
  IF Len(parts) = 0 THEN <<>>
  ELSE IF Len(parts) = 1 THEN parts[1]
  ELSE parts[1] \o sep \o join(Tail(parts), sep)

\* String.prototype.split with a one-character separator
RECURSIVE split(_, _)
split(s, sep) ==
  IF \A k \in 1..Len(s) : s[k] # sep THEN <<s>>
  ELSE LET k == CHOOSE j \in 1..Len(s) :
                  s[j] = sep /\ \A h \in 1..(j - 1) : s[h] # sep
       IN <<SubSeq(s, 1, k - 1)>> \o split(SubSeq(s, k + 1, Len(s)), sep)

\* String.prototype.trim
RECURSIVE trim(_)
trim(s) ==
  IF Len(s) = 0 THEN s
  ELSE IF s[1] = " " THEN trim(Tail(s))
  ELSE IF s[Len(s)] = " " THEN trim(SubSeq(s, 1, Len(s) - 1))
  ELSE s

\* extend( true, target, a, b ): keys of b win over keys of a, which win over
\* the target's; undefined values are never copied
extend(target, a, b) ==
  [k \in DOMAIN target |->
     IF b[k] # Absent THEN b[k] ELSE IF a[k] # Absent THEN a[k] ELSE target[k]]

\* --------------------------------------------------------- document model
addrProps == <<"name", "number", "street", "zip">>

adminProps ==
  <<"admin0", "admin1", "admin1_abbr", "admin2", "local_admin", "locality",
    "neighborhood">>

Range(seq) == {seq[i] : i \in 1..Len(seq)}

MetaKeys == {"id", "type", "nodes", "tags"}

\* the fields setProperties copies, as <<group, property>>
Fields ==
  {<<"address", p>> : p \in Range(addrProps)} \cup {<<"alpha3", "alpha3">>}
    \cup {<<"admin", l>> : l \in Range(adminProps)}

NoAddress == [p \in Range(addrProps) |-> Absent]
NoAdmin == [l \in Range(adminProps) |-> Absent]
NoMeta == [k \in MetaKeys |-> Absent]

\* new Document( source, type, id ) of pelias-model.  The field invalid is
\* the set of fields whose value the setters of the model layer reject.
Document(source, type, id) ==
  [source |-> source, type |-> type, id |-> id,
   sourceId |-> Absent,
   name |-> [default |-> Absent],
   centroid |-> Absent,
   address |-> NoAddress,
   alpha3 |-> Absent,
   admin |-> NoAdmin,
   invalid |-> {},
   meta |-> [NoMeta EXCEPT !["id"] = id, !["type"] = type]]

getName(d, prop) == d.name[prop]
getType(d) == d.type
getId(d) == d.id
getSourceId(d) == d.sourceId
getCentroid(d) == d.centroid
getAlpha3(d) == d.alpha3
getAddress(d, prop) == d.address[prop]
getAdmin(d, level) == d.admin[level]

\* hasValidAddress as it would be without the two length tests
hasValidAddressAnyLength(d) ==
  IF ~isObject(d) THEN FALSE
  ELSE IF ~isObject(d.address) THEN FALSE
  ELSE IF ~isString(d.address["number"]) THEN FALSE
  ELSE IF ~isString(d.address["street"]) THEN FALSE
  ELSE TRUE

hasValidAddress(d) ==
  IF ~isObject(d) THEN FALSE
  ELSE IF ~isObject(d.address) THEN FALSE
  ELSE IF ~isString(d.address["number"]) THEN FALSE
  ELSE IF ~isString(d.address["street"]) THEN FALSE
  ELSE IF Len(d.address["number"]) = 0 THEN FALSE
  ELSE IF Len(d.address["street"]) = 0 THEN FALSE
  ELSE TRUE

\* ----------------------------------------------------------- setProperties
\* record.setAddress( prop, doc.getAddress( prop ) ): the setter throws when
\* the value is not a string or the model layer rejects it
setAddress(record, src, prop) ==
  IF isString(getAddress(src, prop)) /\ <<"address", prop>> \notin src.invalid
  THEN [ok |-> TRUE,
        record |-> [record EXCEPT !.address[prop] = getAddress(src, prop)]]
  ELSE [ok |-> FALSE, record |-> record]

setAlpha3(record, src) ==
  IF isString(getAlpha3(src)) /\ <<"alpha3", "alpha3">> \notin src.invalid
  THEN [ok |-> TRUE, record |-> [record EXCEPT !.alpha3 = getAlpha3(src)]]
  ELSE [ok |-> FALSE, record |-> record]

setAdmin(record, src, level) ==
  IF isString(getAdmin(src, level)) /\ <<"admin", level>> \notin src.invalid
  THEN [ok |-> TRUE,
        record |-> [record EXCEPT !.admin[level] = getAdmin(src, level)]]
  ELSE [ok |-> FALSE, record |-> record]

\* addrProps.forEach( ... try { record.setAddress(...) } catch ( ex ) {} )
RECURSIVE copyAddrProps(_, _, _)
copyAddrProps(record, src, i) ==
  IF i > Len(addrProps) THEN record
  ELSE copyAddrProps(setAddress(record, src, addrProps[i]).record, src, i + 1)

\* adminProps.forEach( ... try { record.setAdmin(...) } catch ( ex ) {} )
RECURSIVE copyAdminProps(_, _, _)
copyAdminProps(record, src, i) ==
  IF i > Len(adminProps) THEN record
  ELSE copyAdminProps(setAdmin(record, src, adminProps[i]).record, src, i + 1)

\* setProperties as it would be with one try block around all the setters
fieldOrder ==
  [i \in 1..Len(addrProps) |-> <<"address", addrProps[i]>>]
    \o <<<<"alpha3", "alpha3">>>>
    \o [i \in 1..Len(adminProps) |-> <<"admin", adminProps[i]>>]

setField(record, src, f) ==
  IF f[1] = "address" THEN setAddress(record, src, f[2])
  ELSE IF f[1] = "alpha3" THEN setAlpha3(record, src)
  ELSE setAdmin(record, src, f[2])

RECURSIVE copyUntilThrow(_, _, _)
copyUntilThrow(record, src, i) ==
  IF i > Len(fieldOrder) THEN record
  ELSE IF setField(record, src, fieldOrder[i]).ok
  THEN copyUntilThrow(setField(record, src, fieldOrder[i]).record, src, i + 1)
  ELSE record

setPropertiesOneTry(record, src) == copyUntilThrow(record, src, 1)

setProperties(record, src) ==
  copyAdminProps(setAlpha3(copyAddrProps(record, src, 1), src).record, src, 1)

\* doc.getName('default') as a boolean
isNamedPoi(d) == truthy(getName(d, "default"))

\* -------------------------------------------------------------- transform
\* the derived type that goes into the new id
type(named) ==
  IF named THEN <<"poi", "-", "address">> ELSE <<"address">>

\* streetnumbers as it would be if empty house numbers were discarded
streetnumbersNonEmpty(d) ==
  SelectSeq([i \in 1..Len(split(d.address["number"], ";")) |->
               trim(split(d.address["number"], ";")[i])],
            LAMBDA x : Len(x) > 0)

\* streetnumbers as it would be without the trim
streetnumbersUntrimmed(d) == split(d.address["number"], ";")

\* doc.address.number.split(';').map(Function.prototype.call, String.prototype.trim)
streetnumbers(d) ==
  LET parts == split(d.address["number"], ";")
  IN [i \in 1..Len(parts) |-> trim(parts[i])]

\* baseId as it would be with the counter moved before the source id is
\* looked at
baseIdAlwaysIncrement(d, ordinal) ==
  IF truthy(getSourceId(d))
  THEN [value |-> getSourceId(d), idOrdinal |-> ordinal + 1]
  ELSE [value |-> toString(ordinal + 1), idOrdinal |-> ordinal + 1]

\* baseId as it would be with idOrdinal + 1 in place of ++idOrdinal
baseIdNoIncrement(d, ordinal) ==
  IF truthy(getSourceId(d))
  THEN [value |-> getSourceId(d), idOrdinal |-> ordinal]
  ELSE [value |-> toString(ordinal + 1), idOrdinal |-> ordinal]

\* ( doc.getSourceId() || ++idOrdinal ): the value and the counter afterwards
baseId(d, ordinal) ==
  IF truthy(getSourceId(d))
  THEN [value |-> getSourceId(d), idOrdinal |-> ordinal]
  ELSE [value |-> toString(ordinal + 1), idOrdinal |-> ordinal + 1]

\* newid as it would be if the first house number were appended as well
newidAlwaysAppend(d, named, base, streetno, i) ==
  join(<<<<"osm">>, getType(d), type(named), base, streetno>>, <<"-">>)

\* the array newid of the i-th house number (i counts from 1 here, from 0 in
\* the source), joined with '-'
newid(d, named, base, streetno, i) ==
  LET parts == <<<<"osm">>, getType(d), type(named), base>>
  IN join(IF i > 1 THEN Append(parts, streetno) ELSE parts, <<"-">>)

\* newRecord as it would be with the new id as the source id as well
newRecordIdAsSourceId(d, id, streetno) ==
  setProperties([Document(<<"osm">>, <<"address">>, id) EXCEPT
                   !.name["default"] =
                     streetno \o <<" ">> \o d.address["street"],
                   !.centroid = getCentroid(d),
                   !.sourceId = id],
                d)

\* newRecord as it would be with the derived type as the document's type
newRecordDerivedType(d, id, streetno) ==
  setProperties([Document(<<"osm">>, type(isNamedPoi(d)), id) EXCEPT
                   !.name["default"] =
                     streetno \o <<" ">> \o d.address["street"],
                   !.centroid = getCentroid(d),
                   !.sourceId = getSourceId(d)],
                d)

\* new Document( 'osm', 'address', id ).setName(..).setCentroid(..).setSourceId(..)
\* followed by setProperties
newRecord(d, id, streetno) ==
  setProperties([Document(<<"osm">>, <<"address">>, id) EXCEPT
                   !.name["default"] =
                     streetno \o <<" ">> \o d.address["street"],
                   !.centroid = getCentroid(d),
                   !.sourceId = getSourceId(d)],
                d)

\* copyMeta as it would be with doc._meta itself as the target of extend
copyMetaInPlace(st) ==
  [st EXCEPT
     !.doc.meta =
       extend(st.doc.meta, NoMeta,
              [NoMeta EXCEPT !["id"] = getId(st.record.doc),
                             !["type"] = getType(st.record.doc)]),
     !.record.doc.meta =
       extend(st.doc.meta, NoMeta,
              [NoMeta EXCEPT !["id"] = getId(st.record.doc),
                             !["type"] = getType(st.record.doc)])]

\* record._meta = extend( true, {}, doc._meta, { id: .., type: .. } ), on the
\* state st of the loop: the source document, the variable record, the
\* counter, what was pushed and how many errors were logged
copyMeta(st) ==
  [st EXCEPT !.record.doc.meta =
     extend(NoMeta, st.doc.meta,
            [NoMeta EXCEPT !["id"] = getId(st.record.doc),
                           !["type"] = getType(st.record.doc)])]

\* this.push( record ) while the i-th house number is handled
pushRecord(st, i) ==
  [st EXCEPT !.pushed =
     Append(@, [kind |-> "record", comp |-> st.record.comp, at |-> i,
                doc |-> st.record.doc])]

\* if( record !== undefined ){ ... }
pushIfDefined(st, i) ==
  IF st.record # Undefined THEN pushRecord(copyMeta(st), i) ELSE st

\* the try block for the i-th house number with its catch; fail is the set
\* of house numbers whose construction throws.  The counter moves before
\* anything can throw and record is assigned only when nothing threw.  The
\* log keeps the house numbers whose error was caught.
construct(st, named, numbers, fail, i, base) ==
  IF i \in fail
  THEN [st EXCEPT !.idOrdinal = base.idOrdinal, !.logged = Append(@, i)]
  ELSE [st EXCEPT
          !.idOrdinal = base.idOrdinal,
          !.record =
            [comp |-> i,
             doc |-> newRecord(st.doc,
                               newid(st.doc, named, base.value,
                                     numbers[i], i),
                               numbers[i])]]

\* the body of streetnumbers.forEach for the i-th house number
forEachBody(st, named, numbers, fail, i) ==
  pushIfDefined(construct(st, named, numbers, fail, i,
                          baseId(st.doc, st.idOrdinal)), i)

RECURSIVE forEach(_, _, _, _, _)
forEach(st, named, numbers, fail, i) ==
  IF i > Len(numbers) THEN st
  ELSE forEach(forEachBody(st, named, numbers, fail, i),
               named, numbers, fail, i + 1)

\* if( hasValidAddress( doc ) ){ ... streetnumbers.forEach( ... ) }
extract(st, named, fail) ==
  IF hasValidAddress(st.doc)
  THEN forEach(st, named, streetnumbers(st.doc), fail, 1)
  ELSE st

\* forward as it would be if every document were a POI in its own right
forwardAlways(st, named) ==
  [st EXCEPT !.pushed =
     Append(@, [kind |-> "doc", comp |-> 0, at |-> 0, doc |-> st.doc])]

\* if( isNamedPoi ){ this.push( doc ); }
forward(st, named) ==
  IF named
  THEN [st EXCEPT !.pushed =
          Append(@, [kind |-> "doc", comp |-> 0, at |-> 0, doc |-> st.doc])]
  ELSE st

\* transform as it would be with the POI pushed above the address push
transformForwardFirst(d, ordinal, fail) ==
  extract(forward([doc |-> d, record |-> Undefined, idOrdinal |-> ordinal,
                   pushed |-> <<>>, logged |-> <<>>],
                  isNamedPoi(d)),
          isNamedPoi(d), fail)

\* transform as it would be with record declared next to idOrdinal, where it
\* keeps the last document of the call before
transformRecordKept(d, ordinal, fail) ==
  forward(extract([doc |-> d,
                   record |->
                     IF \A k \in 1..Len(pushed) : pushed[k].kind # "record"
                     THEN Undefined
                     ELSE [comp |-> pushed[1].comp, doc |-> pushed[1].doc],
                   idOrdinal |-> ordinal, pushed |-> <<>>, logged |-> <<>>],
                  isNamedPoi(d), fail),
          isNamedPoi(d))

\* one call of the through.obj transform function; record is a variable of
\* the call and undefined when the call begins
transform(d, ordinal, fail) ==
  forward(extract([doc |-> d, record |-> Undefined, idOrdinal |-> ordinal,
                   pushed |-> <<>>, logged |-> <<>>],
                  isNamedPoi(d), fail),
          isNamedPoi(d))

\* ------------------------------------------------------------------ inputs
\* the sets of house numbers of a document whose construction may throw
Failures(d) ==
  IF hasValidAddress(d)
  THEN {f \in SUBSET (1..Len(streetnumbers(d))) : Cardinality(f) <= MaxFail}
  ELSE {{}}

\* a document as the upstream stages leave it
sourceDoc(t, name, sid, address) ==
  [Document(<<"osm">>, t, <<"X", ":", "1">>) EXCEPT
     !.name["default"] = name,
     !.sourceId = sid,
     !.centroid = <<"c1">>,
     !.address = address,
     !.meta["nodes"] = <<"n1">>]

addr(number, street) ==
  [NoAddress EXCEPT !["number"] = number, !["street"] = street]

\* house-number strings: empty, single, blank, padded, two to four
\* components, equal and different components, empty components
Numbers ==
  {<<>>,
   <<"1">>,
   <<" ">>,
   <<" ", "1", " ">>,
   <<"1", ";", "1">>,
   <<"1", "1", ";", "1">>,
   <<" ", "1", " ", ";", " ", "1", " ">>,
   <<"1", ";">>,
   <<";", ";">>,
   <<"1", ";", "1", ";", "1">>,
   <<"1", ";", "1", "1", ";", "1", ";">>}

Addresses ==
  {Undefined}
    \cup {addr(n, <<"St">>) : n \in Numbers \cup {Absent}}
    \cup {addr(<<"1">>, s) : s \in {<<>>, Absent}}
    \cup {addr(<<"1", "2", ";", "1", "4">>, <<"Main", " ", "St">>)}

Docs ==
  {sourceDoc(<<"node">>, name, sid, a) :
     name \in {Absent, <<>>, <<"Cafe">>}, sid \in {Absent, <<"1">>},
     a \in Addresses}

NoDoc == [none |-> TRUE]

Streams == {1, 2}

\* ----------------------------------------------------------------- actions
Init ==
  /\ idOrdinal = 0
  /\ doc = NoDoc
  /\ pushed = <<>>
  /\ logged = <<>>
  /\ sink = [s \in Streams |-> <<>>]
  /\ written = 0
  /\ raw = NoDoc
  /\ emitted = <<>>
  /\ streamError = FALSE

\* the transform function is called with document d
Transform(d, fail) ==
  \E st \in {transform(d, idOrdinal, fail)} :
     /\ idOrdinal' = st.idOrdinal
     /\ doc' = d
     /\ pushed' = st.pushed
     /\ logged' = st.logged

\* stream.write( d ) on a stream nothing is piped from
Write(d, fail) ==
  /\ idOrdinal < MaxOrdinal
  /\ Transform(d, fail)
  /\ UNCHANGED <<sink, written, raw, emitted, streamError>>

Next == \E d \in Docs : \E fail \in Failures(d) : Write(d, fail)

Spec == Init /\ [][Next]_vars

\* stream.write( d ) on stream instance s of the factory, with a sink piped
\* from it; the transform runs to completion before any other write
WriteTo(s, d, fail) ==
  /\ written < MaxWrites
  /\ Transform(d, fail)
  /\ written' = written + 1
  /\ sink' = [sink EXCEPT ![s] =
                @ \o [k \in 1..Len(pushed') |->
                        [input |-> written + 1, entry |-> pushed'[k]]]]
  /\ UNCHANGED <<raw, emitted, streamError>>

RunDocs ==
  {sourceDoc(<<"node">>, name, sid, a) :
     name \in {Absent, <<"Cafe">>}, sid \in {Absent, <<"1">>},
     a \in {Undefined, addr(<<"1">>, <<"St">>),
            addr(<<"1", ";", "1">>, <<"St">>)}}

NextRun ==
  \E s \in Streams : \E d \in RunDocs : \E fail \in Failures(d) :
    WriteTo(s, d, fail)

SpecRun == Init /\ [][NextRun]_vars

\* a document that carries every field setProperties copies, but for the
\* fields in missing; the model layer rejects the values of those in invalid
fieldDoc(missing, invalid) ==
  [sourceDoc(<<"node">>, <<"Cafe">>, Absent,
             addr(<<"1", ";", "1">>, <<"St">>)) EXCEPT
     !.address["name"] =
       IF <<"address", "name">> \in missing THEN Absent ELSE <<"name">>,
     !.address["zip"] =
       IF <<"address", "zip">> \in missing THEN Absent ELSE <<"zip">>,
     !.alpha3 =
       IF <<"alpha3", "alpha3">> \in missing THEN Absent ELSE <<"alpha3">>,
     !.admin =
       [l \in Range(adminProps) |->
          IF <<"admin", l>> \in missing THEN Absent ELSE <<l>>],
     !.invalid = invalid]

\* the fields a document lacks: none, or those a sparsely tagged record has
\* no value for
MissingSets ==
  {{},
   {<<"address", "name">>, <<"alpha3", "alpha3">>, <<"admin", "admin1_abbr">>,
    <<"admin", "local_admin">>, <<"admin", "neighborhood">>}}

\* the sets of fields of one document whose value the model layer rejects
InvalidSets == {bad \in SUBSET Fields : Cardinality(bad) <= MaxBadFields}

\* stream.write( d ) of such a document
WriteFields(missing, invalid) ==
  /\ idOrdinal < MaxOrdinal
  /\ Transform(fieldDoc(missing, invalid), {})
  /\ UNCHANGED <<sink, written, raw, emitted, streamError>>

NextFields ==
  \E missing \in MissingSets : \E invalid \in InvalidSets :
    WriteFields(missing, invalid)

SpecFields == Init /\ [][NextFields]_vars

\* ----------------------------------------------------- document constructor
\* a raw record; any field may be missing
rawRecord(id, t, lat, lon, centroid, nodes, tags) ==
  [id |-> id, type |-> t, lat |-> lat, lon |-> lon, centroid |-> centroid,
   nodes |-> nodes, tags |-> tags]

\* the model layer accepts a coordinate only when it is a number
isNumber(x) == x \in {<<"0">>, <<"1">>, <<"2">>}

\* the canonical identity cannot be built without the id and the type
identityFails(r) == r.id = Absent \/ r.type = Absent

\* setCentroid throws on a coordinate that is not a number
centroidFails(r) ==
  /\ r.lat # Absent
  /\ r.lon # Absent
  /\ ~(isNumber(r.lat) /\ isNumber(r.lon))

\* centroidOf as it would be with a truthiness test on lat and lon
centroidOfTruthy(r) ==
  IF r.lat \notin {Absent, <<"0">>} /\ r.lon \notin {Absent, <<"0">>}
  THEN <<r.lat, r.lon>>
  ELSE IF r.centroid # Absent THEN r.centroid
  ELSE Absent

\* lat/lon win over a precomputed centroid; a centroid is <<lat, lon>>
centroidOf(r) ==
  IF r.lat # Absent /\ r.lon # Absent THEN <<r.lat, r.lon>>
  ELSE IF r.centroid # Absent THEN r.centroid
  ELSE Absent

EmptyObject == <<"{}">>

\* canonical as it would be with the tags set only when the record has tags
canonicalTagsVerbatim(r) ==
  [Document(<<"osm">>, <<"venue">>, join(<<r.type, r.id>>, <<":">>)) EXCEPT
     !.centroid = centroidOf(r),
     !.meta["nodes"] = r.nodes,
     !.meta["tags"] = r.tags]

\* the document built from a record the model layer accepts
canonical(r) ==
  [Document(<<"osm">>, <<"venue">>, join(<<r.type, r.id>>, <<":">>)) EXCEPT
     !.centroid = centroidOf(r),
     !.meta["nodes"] = r.nodes,
     !.meta["tags"] = IF r.tags # Absent THEN r.tags ELSE EmptyObject]

\* documentConstructor as it would be without the catch
documentConstructorNoCatch(r) ==
  IF identityFails(r) \/ centroidFails(r)
  THEN [pushed |-> <<>>, raised |-> TRUE]
  ELSE [pushed |-> <<canonical(r)>>, raised |-> FALSE]

\* one call of the document constructor's transform: what it pushes and
\* whether it raises
documentConstructor(r) ==
  IF identityFails(r) \/ centroidFails(r)
  THEN [pushed |-> <<>>, raised |-> FALSE]
  ELSE [pushed |-> <<canonical(r)>>, raised |-> FALSE]

RawRecords ==
  {rawRecord(id, t, lat, lon, c, n, g) :
     id \in {Absent, <<"1">>}, t \in {Absent, <<"X">>},
     lat \in {Absent, <<"0">>, <<"1">>, <<"x">>},
     lon \in {Absent, <<"0">>, <<"1">>},
     c \in {Absent, <<<<"1">>, <<"2">>>>},
     n \in {Absent, <<"X", "Y">>}, g \in {Absent, <<"X", "Y">>}}

\* stream.write( r ) on a document constructor stream that has not failed
Construct(r) ==
  /\ ~streamError
  /\ raw' = r
  /\ emitted' = documentConstructor(r).pushed
  /\ streamError' = documentConstructor(r).raised
  /\ UNCHANGED <<idOrdinal, doc, pushed, logged, sink, written>>

NextDC == \E r \in RawRecords : Construct(r)

SpecDC == Init /\ [][NextDC]_vars

\* ------------------------------------------------------------- properties
\* positions of the address-derived documents and of the original in what a
\* call pushed
Records(p) == {k \in 1..Len(p) : p[k].kind = "record"}
Originals(p) == {k \in 1..Len(p) : p[k].kind = "doc"}

\* positions of the separators of a house-number string
Separators(s) == {k \in 1..Len(s) : s[k] = ";"}

\* number of ';'-separated components of a house-number string
Components(s) == Cardinality(Separators(s)) + 1

\* the c-th component of a house-number string, stripped of the blanks
\* around it
Component(s, c) ==
  LET ends == Separators(s) \cup {0, Len(s) + 1}
      from == CHOOSE k \in ends : Cardinality({j \in ends : j < k}) = c - 1
      to == CHOOSE k \in ends : Cardinality({j \in ends : j < k}) = c
      inked == {k \in (from + 1)..(to - 1) : s[k] # " "}
  IN IF inked = {} THEN <<>>
     ELSE SubSeq(s, CHOOSE k \in inked : \A j \in inked : k <= j,
                 CHOOSE k \in inked : \A j \in inked : k >= j)

\* the name is a string of at least one character
NameNonEmpty(d) == d.name["default"] # Absent /\ Len(d.name["default"]) > 0

C2_ForwardOriginal ==
  doc # NoDoc =>
    /\ Cardinality(Originals(pushed)) = (IF NameNonEmpty(doc) THEN 1 ELSE 0)
    /\ \A k \in Originals(pushed) : pushed[k].doc = doc

C2_Witness ==
  /\ doc # NoDoc
  /\ NameNonEmpty(doc)
  /\ hasValidAddress(doc)
  /\ logged # <<>>
  /\ Cardinality(Originals(pushed)) = 1

\* C3: in every sink the outputs of an input come before the outputs of the
\* next input, and among the outputs of one input the address-derived
\* documents come in house-number order and before the original
C3_EmissionOrder ==
  \A s \in Streams : \A p, q \in 1..Len(sink[s]) :
    p < q =>
      /\ sink[s][p].input <= sink[s][q].input
      /\ sink[s][p].input = sink[s][q].input =>
           /\ ~(sink[s][p].entry.kind = "doc" /\ sink[s][q].entry.kind = "record")
           /\ (sink[s][p].entry.kind = "record"
                 /\ sink[s][q].entry.kind = "record") =>
                sink[s][p].entry.comp <= sink[s][q].entry.comp

C3_Witness ==
  \E s \in Streams :
    /\ Len(sink[s]) = 4
    /\ sink[s][1].entry.comp = 1
    /\ sink[s][2].entry.comp = 2
    /\ sink[s][3].entry.kind = "doc"
    /\ sink[s][3].input = 1
    /\ sink[s][4].input = 2

\* C4: the address-derived documents of one input have pairwise distinct
\* ids, whatever the components of the house number, and none of them has
\* the id of the source document
C4_SiblingIdsDistinct ==
  doc # NoDoc =>
    \A p, q \in Records(pushed) :
      /\ pushed[p].doc.id # doc.id
      /\ pushed[p].comp # pushed[q].comp => pushed[p].doc.id # pushed[q].doc.id

\* every address-derived document in the sinks, with the stream, the input
\* and the house number it was built for
Derived ==
  UNION {{[stream |-> s, input |-> sink[s][k].input,
           comp |-> sink[s][k].entry.comp, doc |-> sink[s][k].entry.doc] :
            k \in {j \in 1..Len(sink[s]) : sink[s][j].entry.kind = "record"}} :
         s \in Streams}

\* C5: two address-derived documents whose source documents lack an
\* upstream id never have the same id, whichever stream instances handled
\* their source documents
C5_CounterIdsDistinct ==
  \A e, f \in Derived :
    (/\ e.doc.sourceId = Absent
     /\ f.doc.sourceId = Absent
     /\ <<e.input, e.comp>> # <<f.input, f.comp>>) => e.doc.id # f.doc.id

C5_Witness ==
  \E e, f \in Derived :
    /\ e.stream # f.stream
    /\ e.doc.sourceId = Absent
    /\ f.doc.sourceId = Absent
    /\ e.comp = 2
    /\ f.comp = 2

\* C6: a house number whose construction throws yields no document, and
\* every other house number of the same input yields exactly one
C6_FailedComponentSkipped ==
  (doc # NoDoc /\ hasValidAddress(doc)) =>
    \A i \in 1..Components(doc.address["number"]) :
      IF i \in Range(logged)
      THEN \A k \in Records(pushed) : pushed[k].at # i
      ELSE Cardinality({k \in Records(pushed) : pushed[k].comp = i}) = 1

\* the value a derived document has for a field that setProperties copies
FieldOf(d, f) ==
  IF f[1] = "address" THEN d.address[f[2]]
  ELSE IF f[1] = "alpha3" THEN d.alpha3
  ELSE d.admin[f[2]]

\* C7: every house number still yields its document when the copy of some
\* fields fails, and that document has the source's value for each field the
\* source has and the model layer accepts, and no value for any other field
C7_FieldCopiesIndependent ==
  (doc # NoDoc /\ hasValidAddress(doc) /\ logged = <<>>) =>
    /\ Cardinality(Records(pushed)) = Components(doc.address["number"])
    /\ \A k \in Records(pushed) : \A f \in Fields :
         FieldOf(pushed[k].doc, f) =
           (IF FieldOf(doc, f) # Absent /\ f \notin doc.invalid
            THEN FieldOf(doc, f) ELSE Absent)

C7_Witness ==
  /\ doc # NoDoc
  /\ doc.invalid = {<<"address", "zip">>}
  /\ doc.alpha3 = Absent
  /\ \E k \in Records(pushed) :
       /\ pushed[k].doc.address["zip"] = Absent
       /\ pushed[k].doc.address["street"] = <<"St">>
       /\ pushed[k].doc.alpha3 = Absent
       /\ pushed[k].doc.admin["locality"] = <<"locality">>

\* the record cannot be turned into a document
ConstructionFails(r) ==
  \/ r.id = Absent
  \/ r.type = Absent
  \/ (r.lat # Absent /\ r.lon # Absent /\ (r.lat = <<"x">> \/ r.lon = <<"x">>))

\* C8: a record whose construction fails is dropped without a stream error,
\* and the call after it pushes one document when its record is valid
C8_MalformedRecordsDropped ==
  /\ [](raw # NoDoc /\ ConstructionFails(raw) =>
          emitted = <<>> /\ ~streamError)
  /\ [][(raw # NoDoc /\ ConstructionFails(raw) /\ ~ConstructionFails(raw'))
          => (Len(emitted') = 1 /\ ~streamError')]_vars

C8_Witness ==
  /\ raw # NoDoc
  /\ raw.id = Absent
  /\ raw.type = Absent
  /\ emitted = <<>>
  /\ ~streamError

Prefix(s, n) == SubSeq(s, 1, IF n < Len(s) THEN n ELSE Len(s))

ExpectedId(d, ordinal, c) ==
  <<"osm", "-">> \o d.type \o <<"-">>
    \o (IF NameNonEmpty(d) THEN <<"poi", "-", "address">> ELSE <<"address">>)
    \o <<"-">>
    \o (IF d.sourceId # Absent THEN d.sourceId ELSE toString(ordinal + c))
    \o (IF c > 1 THEN <<"-">> \o Component(d.address["number"], c) ELSE <<>>)

\* C10: the id of an address-derived document is 'osm', the source's type,
\* the derived type and the base identifier joined with '-', the base being
\* the source's upstream id or else the next value of the counter; every
\* house number after the first appends '-' and its trimmed self
C10_IdentityShape ==
  [][\A k \in Records(pushed') :
       pushed'[k].doc.id = ExpectedId(doc', idOrdinal, pushed'[k].comp)]_vars

C10_Witness ==
  /\ doc # NoDoc
  /\ doc.sourceId = Absent
  /\ idOrdinal = 4
  /\ \E k \in Records(pushed) :
       /\ pushed[k].comp = 3
       /\ pushed[k].doc.id =
            <<"osm", "-", "node", "-", "address", "-", "4", "-", "1">>

\* C11: the default name of every address-derived document is the house
\* number it was built for, stripped of the blanks around it, then one
\* space, then the street of the source document; with no failure the
\* documents come in the order of the house numbers
C11_NameIsNumberSpaceStreet ==
  doc # NoDoc =>
    /\ \A k \in Records(pushed) :
         pushed[k].doc.name["default"] =
           Component(doc.address["number"], pushed[k].comp) \o <<" ">>
             \o doc.address["street"]
    /\ logged = <<>> => \A k \in Records(pushed) : pushed[k].comp = k

C11_Witness ==
  /\ doc # NoDoc
  /\ doc.address # Undefined
  /\ doc.address["number"] = <<"1", "2", ";", "1", "4">>
  /\ doc.address["street"] = <<"Main", " ", "St">>
  /\ Len(pushed) >= 2
  /\ pushed[1].doc.name["default"] = <<"1", "2", " ", "Main", " ", "St">>
  /\ pushed[2].doc.name["default"] = <<"1", "4", " ", "Main", " ", "St">>

\* C12: the metadata of every address-derived document is the metadata of
\* the source document with id and type replaced by the derived document's
\* own, and the source document leaves the call with the metadata it came
\* with
C12_MetaCopiedSourceUntouched ==
  doc # NoDoc =>
    /\ \A k \in Records(pushed) :
         pushed[k].doc.meta =
           [doc.meta EXCEPT !["id"] = pushed[k].doc.id,
                            !["type"] = pushed[k].doc.type]
    /\ \A k \in Originals(pushed) : pushed[k].doc.meta = doc.meta

C12_Witness ==
  /\ doc # NoDoc
  /\ Cardinality(Records(pushed)) = 2
  /\ \A k \in Records(pushed) :
       /\ pushed[k].doc.meta["nodes"] = <<"n1">>
       /\ pushed[k].doc.meta["id"] = pushed[k].doc.id
       /\ pushed[k].doc.meta["id"] # doc.meta["id"]
       /\ pushed[k].doc.meta["type"] = <<"address">>
  /\ \E k \in Originals(pushed) :
       /\ pushed[k].doc.meta["id"] = <<"X", ":", "1">>
       /\ pushed[k].doc.meta["type"] = <<"node">>

\* C13: the centroid of the document built from a record is <<lat, lon>>
\* when the record has both, zero included and whatever centroid object it
\* carries; else the record's centroid object when it has one; else the
\* document has no centroid
C13_CentroidResolution ==
  (raw # NoDoc /\ emitted # <<>>) =>
    /\ (raw.lat # Absent /\ raw.lon # Absent) =>
         emitted[1].centroid = <<raw.lat, raw.lon>>
    /\ (~(raw.lat # Absent /\ raw.lon # Absent) /\ raw.centroid # Absent) =>
         emitted[1].centroid = raw.centroid
    /\ (~(raw.lat # Absent /\ raw.lon # Absent) /\ raw.centroid = Absent) =>
         emitted[1].centroid = Absent

C13_Witness ==
  /\ raw # NoDoc
  /\ raw.lat = <<"0">>
  /\ raw.lon = <<"0">>
  /\ raw.centroid = <<<<"1">>, <<"2">>>>
  /\ Len(emitted) = 1
  /\ emitted[1].centroid = <<<<"0">>, <<"0">>>>

ValidShape(d) ==
  /\ d # Undefined
  /\ d.address # Undefined
  /\ d.address["number"] \notin {Absent, <<>>}
  /\ d.address["street"] \notin {Absent, <<>>}

\* C15: hasValidAddress is true exactly for a document with an address
\* whose number and street are strings of at least one character, is false
\* for what is no object at all, and the transform extracts addresses
\* (pushes a document or logs a failed construction) for exactly those
C15_HasValidAddress ==
  /\ hasValidAddress(Undefined) = FALSE
  /\ doc # NoDoc =>
       /\ hasValidAddress(doc) = ValidShape(doc)
       /\ (Records(pushed) # {} \/ logged # <<>>) = ValidShape(doc)

C15_Witness ==
  /\ doc # NoDoc
  /\ doc.address # Undefined
  /\ doc.address["number"] = <<"1">>
  /\ doc.address["street"] = <<>>
  /\ Len(pushed) = 1
  /\ Records(pushed) = {}
  /\ logged = <<>>

\* C16: every address-derived document has the centroid of the source
\* document and, as its source id, the upstream id of the source document
\* (none when the source has none), never its own id, for every house
\* number of the source
C16_CentroidAndSourceIdCopied ==
  doc # NoDoc =>
    \A k \in Records(pushed) :
      /\ pushed[k].doc.centroid = doc.centroid
      /\ pushed[k].doc.sourceId = doc.sourceId
      /\ pushed[k].doc.sourceId # pushed[k].doc.id

C16_Witness ==
  /\ doc # NoDoc
  /\ doc.sourceId = <<"1">>
  /\ {pushed[k].comp : k \in Records(pushed)} = {1, 2, 3}
  /\ \A k \in Records(pushed) :
       /\ pushed[k].doc.centroid = <<"c1">>
       /\ pushed[k].doc.sourceId = <<"1">>

\* C17: a call of the transform adds to the counter the number of house
\* numbers of its document, constructed or not, when the document has a
\* valid address and no upstream id, and leaves the counter as it is when
\* the document has an upstream id or no valid address; the counter never
\* goes down
C17_CounterMoves ==
  [][/\ idOrdinal' >= idOrdinal
     /\ idOrdinal' =
          idOrdinal +
            (IF ValidShape(doc') /\ doc'.sourceId = Absent
             THEN Components(doc'.address["number"]) ELSE 0)]_vars

C17_Witness ==
  /\ doc # NoDoc
  /\ doc.sourceId = Absent
  /\ ValidShape(doc)
  /\ Components(doc.address["number"]) = 3
  /\ Len(logged) = 2
  /\ idOrdinal = 3

\* C18: an address-derived document whose id is built on a value of the
\* counter never has the id of an address-derived document of another
\* input, of the same category and the same derived type, whose id is
\* built on the upstream id
C18_CounterIdsApartFromUpstreamIds ==
  \A e, f \in Derived :
    (/\ e.doc.sourceId = Absent
     /\ f.doc.sourceId # Absent
     /\ <<e.stream, e.input>> # <<f.stream, f.input>>
     /\ e.doc.id[3] = f.doc.id[3]
     /\ (e.doc.id[5] = "poi") = (f.doc.id[5] = "poi")) => e.doc.id # f.doc.id

\* C19: what a call pushes is its own document or an address-derived
\* document built during that call, for one of the house numbers of its
\* document whose construction did not throw and with the id that house
\* number gets in that call; a call in which every construction throws
\* pushes no address-derived document, whatever the calls before it built
C19_OnlyThisInputsDocuments ==
  [][/\ \A k \in Originals(pushed') : pushed'[k].doc = doc'
     /\ \A k \in Records(pushed') :
          /\ ValidShape(doc')
          /\ pushed'[k].comp \in
               (1..Components(doc'.address["number"])) \ Range(logged')
          /\ pushed'[k].doc.id = ExpectedId(doc', idOrdinal, pushed'[k].comp)
          /\ pushed'[k].doc.sourceId = doc'.sourceId
     /\ (ValidShape(doc')
           /\ Range(logged') = 1..Components(doc'.address["number"])) =>
          Records(pushed') = {}]_vars

C19_Witness ==
  /\ written = 2
  /\ \E s \in Streams : \E j \in 1..Len(sink[s]) :
       sink[s][j].input = 1 /\ sink[s][j].entry.kind = "record"
  /\ ValidShape(doc)
  /\ Range(logged) = 1..Components(doc.address["number"])
  /\ Len(pushed) = 1
  /\ pushed[1].kind = "doc"

====
